---- MODULE Spec2Model ----
(***************************************************************************)
(* astgen-go: Build turns a Go value (seen through package reflect) into   *)
(* a go/ast expression tree.  The model follows src/build.go (builder,     *)
(* build, buildInner, buildExpr, getVarName) and the Type Describer        *)
(* buildType of src/unnamed/part_004.                                      *)
(*                                                                         *)
(* Texts (identifier names, literal texts, rendered source) are sequences  *)
(* of one-character strings, so that concatenation, decimal formatting and *)
(* the lexicographic comparison of sort.Slice's comparator are computed.   *)
(***************************************************************************)
EXTENDS Integers, Sequences, FiniteSets, TLC

\* ------------------------------------------------------------------------
\* Bounds
\* ------------------------------------------------------------------------

\* Depth of nested buildInner calls the goroutine stack can hold; a walk that
\* needs more ends in the runtime's fatal stack overflow.
MaxStack == 9

\* ------------------------------------------------------------------------
\* Texts
\* ------------------------------------------------------------------------

\* The back-tick character (byte 96), which delimits a raw string literal.
BackTick == "bq"

\* The characters the model uses, in ascending byte order.
Chars ==
  << "\t", "\n", "\r", " ", "\"", "&", "(", ")", "*", "+", ",", "-", ".",
     "0", "1", "2", "3", "4", "5", "6", "7", "8", "9", ":",
     "[", "\\", "]", BackTick,
     "a", "b", "c", "d", "e", "f", "g", "h", "i", "j", "k", "l", "m",
     "n", "o", "p", "q", "r", "s", "t", "u", "v", "w", "x", "y", "z",
     "{", "}" >>

Ord(c) == CHOOSE i \in 1..Len(Chars) : Chars[i] = c

\* The < of Go strings: bytewise lexicographic, a proper prefix is smaller.
RECURSIVE TextLess(_, _)
TextLess(a, b) ==
  IF b = <<>> THEN FALSE
  ELSE IF a = <<>> THEN TRUE
  ELSE IF Head(a) = Head(b) THEN TextLess(Tail(a), Tail(b))
  ELSE Ord(Head(a)) < Ord(Head(b))

Digit(d) == Chars[Ord("0") + d]

\* strconv.Itoa / fmt.Sprint of a non-negative integer.
RECURSIVE NatText(_)
NatText(n) == IF n < 10 THEN <<Digit(n)>> ELSE NatText(n \div 10) \o <<Digit(n % 10)>>

\* fmt.Sprint(v.Int()), fmt.Sprint(v.Uint()).
IntText(n) == IF n < 0 THEN <<"-">> \o NatText(-n) ELSE NatText(n)

\* fmt.Sprint(v.Float()): %v is the shortest 'g' form.  A float is held in
\* tenths (num = 10 * value); an integral value prints as digits only.
FloatText(n) ==
  LET a == IF n < 0 THEN -n ELSE n
      s == IF n < 0 THEN <<"-">> ELSE <<>>
  IN IF a % 10 = 0 THEN s \o NatText(a \div 10)
     ELSE s \o NatText(a \div 10) \o <<".">> \o <<Digit(a % 10)>>

\* fmt.Sprint(v.Complex()): "(%g%+gi)".
ComplexText(re, im) ==
  <<"(">> \o FloatText(re) \o (IF im < 0 THEN <<>> ELSE <<"+">>) \o FloatText(im) \o <<"i", ")">>

RECURSIVE Contains(_, _)
Contains(s, c) == IF s = <<>> THEN FALSE ELSE Head(s) = c \/ Contains(Tail(s), c)

RECURSIVE Remove(_, _)
Remove(s, c) ==
  IF s = <<>> THEN <<>>
  ELSE IF Head(s) = c THEN Remove(Tail(s), c) ELSE <<Head(s)>> \o Remove(Tail(s), c)

\* strconv.Quote without the surrounding quotes.
RECURSIVE QuoteBody(_)
QuoteBody(s) ==
  IF s = <<>> THEN <<>>
  ELSE (CASE Head(s) = "\"" -> <<"\\", "\"">>
          [] Head(s) = "\\" -> <<"\\", "\\">>
          [] Head(s) = "\n" -> <<"\\", "n">>
          [] Head(s) = "\t" -> <<"\\", "t">>
          [] Head(s) = "\r" -> <<"\\", "r">>
          [] OTHER -> <<Head(s)>>) \o QuoteBody(Tail(s))

Quote(s) == <<"\"">> \o QuoteBody(s) \o <<"\"">>

\* ------------------------------------------------------------------------
\* reflect.Type
\* ------------------------------------------------------------------------

\* kind: the reflect.Kind; name: the declared name (empty for an unnamed
\* type); len: array length; sub: element type, <<key, elem>> of a map, or
\* the field types of a struct; fields: the struct's field names; tags: the
\* struct's field tags, one text per field (<<>> when no field has a tag).
Type(kind, name, len, sub, fields) ==
  [kind |-> kind, name |-> name, len |-> len, sub |-> sub, fields |-> fields,
   tags |-> <<>>]

Basic(kind) == Type(kind, <<>>, 0, <<>>, <<>>)
Named(kind, name) == Type(kind, name, 0, <<>>, <<>>)
PtrTo(t) == Type("Ptr", <<>>, 0, <<t>>, <<>>)
SliceOf(t) == Type("Slice", <<>>, 0, <<t>>, <<>>)
ArrayOf(n, t) == Type("Array", <<>>, n, <<t>>, <<>>)
MapOf(k, v) == Type("Map", <<>>, 0, <<k, v>>, <<>>)
StructOf(name, fields, types) == Type("Struct", name, 0, types, fields)
\* A struct type whose fields carry the tags given (<<>> for an untagged field).
Tagged(t, tags) == [t EXCEPT !.tags = tags]

\* ------------------------------------------------------------------------
\* go/ast nodes
\* ------------------------------------------------------------------------

\* One record shape for every node.  kind is the token of a BasicLit; text is
\* an Ident's Name, a BasicLit's Value or a Field's Tag (empty: no tag); typ holds a CompositeLit's Type, a
\* CallExpr's Fun, a Field's Type, an ArrayType's Elt, a FuncLit's Type or a
\* FuncType's single result; kids holds the remaining children in order.
Node(tag, kind, text, typ, kids) ==
  [tag |-> tag, kind |-> kind, text |-> text, typ |-> typ, kids |-> kids]

Ident(name) == Node("Ident", "", name, <<>>, <<>>)
BasicLit(kind, value) == Node("BasicLit", kind, value, <<>>, <<>>)
CallExpr(fun, args) == Node("CallExpr", "", <<>>, <<fun>>, args)
CompositeLit(t, elts) == Node("CompositeLit", "", <<>>, <<t>>, elts)
KeyValueExpr(k, v) == Node("KeyValueExpr", "", <<>>, <<>>, <<k, v>>)
UnaryExpr(x) == Node("UnaryExpr", "", <<"&">>, <<>>, <<x>>)
ParenExpr(x) == Node("ParenExpr", "", <<>>, <<>>, <<x>>)
StarExpr(x) == Node("StarExpr", "", <<>>, <<>>, <<x>>)
InterfaceType == Node("InterfaceType", "", <<>>, <<>>, <<>>)
ArrayType(len, elt) == Node("ArrayType", "", <<>>, <<elt>>, len)
MapType(k, v) == Node("MapType", "", <<>>, <<>>, <<k, v>>)
StructType(fs) == Node("StructType", "", <<>>, <<>>, fs)
Field(names, t) == Node("Field", "", <<>>, <<t>>, names)
FuncType(params, result) == Node("FuncType", "", <<>>, <<result>>, params)
ReturnStmt(x) == Node("ReturnStmt", "", <<>>, <<>>, <<x>>)
FuncLit(t, body) == Node("FuncLit", "", <<>>, <<t>>, <<body>>)

\* ------------------------------------------------------------------------
\* Type Describer
\* ------------------------------------------------------------------------

ScalarKinds ==
  { "Bool", "Int", "Int8", "Int16", "Int32", "Int64", "Uint", "Uint8", "Uint16",
    "Uint32", "Uint64", "Float32", "Float64", "Complex64", "Complex128", "String" }

\* The identifier buildType returns for a scalar kind.
KindName(kind) ==
  CASE kind = "Bool" -> <<"b", "o", "o", "l">>
    [] kind = "Int" -> <<"i", "n", "t">>
    [] kind = "Int8" -> <<"i", "n", "t", "8">>
    [] kind = "Int16" -> <<"i", "n", "t", "1", "6">>
    [] kind = "Int32" -> <<"i", "n", "t", "3", "2">>
    [] kind = "Int64" -> <<"i", "n", "t", "6", "4">>
    [] kind = "Uint" -> <<"u", "i", "n", "t">>
    [] kind = "Uint8" -> <<"u", "i", "n", "t", "8">>
    [] kind = "Uint16" -> <<"u", "i", "n", "t", "1", "6">>
    [] kind = "Uint32" -> <<"u", "i", "n", "t", "3", "2">>
    [] kind = "Uint64" -> <<"u", "i", "n", "t", "6", "4">>
    [] kind = "Float32" -> <<"f", "l", "o", "a", "t", "3", "2">>
    [] kind = "Float64" -> <<"f", "l", "o", "a", "t", "6", "4">>
    [] kind = "Complex64" -> <<"c", "o", "m", "p", "l", "e", "x", "6", "4">>
    [] kind = "Complex128" -> <<"c", "o", "m", "p", "l", "e", "x", "1", "2", "8">>
    [] kind = "String" -> <<"s", "t", "r", "i", "n", "g">>

\* Results of buildType: the type expression (t) or the error (err), each a
\* sequence of length 0 or 1.
TypeOk(n) == [t |-> <<n>>, err |-> <<>>]
TypeErr(t) == [t |-> <<>>, err |-> <<t>>]

\* The struct case's loop: fs is the field list so far, prev the previous
\* field's type expression (<<>> before the first field).
RECURSIVE buildType(_)
RECURSIVE buildStructFields(_, _, _, _)
buildStructFields(t, i, fs, prev) ==
  IF i > Len(t.sub) THEN TypeOk(StructType(fs))
  ELSE LET r == buildType(t.sub[i])
       IN IF r.err # <<>> THEN r
          ELSE IF prev = r.t
            THEN LET last == fs[Len(fs)]
                     merged == Field(last.kids \o <<Ident(t.fields[i])>>, last.typ[1])
                 IN buildStructFields(t, i + 1, [fs EXCEPT ![Len(fs)] = merged], prev)
            ELSE buildStructFields(t, i + 1,
                                   Append(fs, Field(<<Ident(t.fields[i])>>, r.t[1])), r.t)

buildType(t) ==
  CASE t.kind \in ScalarKinds -> TypeOk(Ident(KindName(t.kind)))
    [] t.kind = "Interface" -> TypeOk(InterfaceType)
    [] t.kind = "Array" ->
         LET elem == buildType(t.sub[1])
         IN IF elem.err # <<>> THEN elem
            ELSE TypeOk(ArrayType(<<BasicLit("INT", NatText(t.len))>>, elem.t[1]))
    [] t.kind = "Slice" ->
         LET elem == buildType(t.sub[1])
         IN IF elem.err # <<>> THEN elem ELSE TypeOk(ArrayType(<<>>, elem.t[1]))
    [] t.kind = "Map" ->
         LET k == buildType(t.sub[1])
         IN IF k.err # <<>> THEN k
            ELSE LET v == buildType(t.sub[2])
                 IN IF v.err # <<>> THEN v ELSE TypeOk(MapType(k.t[1], v.t[1]))
    [] t.kind = "Struct" ->
         IF t.name # <<>> THEN TypeOk(Ident(t.name))
         ELSE buildStructFields(t, 1, <<>>, <<>>)
    [] t.kind = "Ptr" ->
         LET e == buildType(t.sub[1])
         IN IF e.err # <<>> THEN e ELSE TypeOk(StarExpr(e.t[1]))
    [] OTHER -> TypeErr(t)

\* ------------------------------------------------------------------------
\* reflect.Value
\* ------------------------------------------------------------------------

\* The input of one Build call: the cells pointers point to (a pointer holds
\* the index of its cell, 0 when nil) and the root value.
VARIABLES heap, root

\* The order in which the runtime's map iterator yields the entries during
\* the call: a starting offset and a direction.
VARIABLES seed

\* pc: "idle" before the call, "done" after it; result: what Build returned.
VARIABLES pc, result

\* Several Build calls in progress at once, over the same memory.  builders:
\* the builder objects allocated so far, each its b.vars; calls: per call its
\* root and iteration order, its position ("idle", "new" once its builder is
\* allocated, "walked" once buildInner returned, "done"), the index b of its
\* builder, what buildInner returned (r) and what Build returned (out).
VARIABLES calls, builders

vars == <<heap, root, seed, pc, result, calls, builders>>

\* t: the type; num: a bool (0, 1), an integer, or a float in tenths; im: the
\* imaginary part of a complex; str: a string's text; addr: a pointer's cell;
\* isNil: a nil slice, map, func or chan; kids: the elements of an array or
\* slice, <<k1, v1, k2, v2, ...>> of a map, the field values of a struct, the
\* boxed value of a non-nil interface.
Value(t, num, im, str, addr, isNil, kids) ==
  [t |-> t, num |-> num, im |-> im, str |-> str, addr |-> addr, isNil |-> isNil,
   kids |-> kids]

\* The zero reflect.Value: reflect.ValueOf(nil), and Elem() of a nil pointer
\* or of a nil interface.
Invalid == Value(Basic("Invalid"), 0, 0, <<>>, 0, FALSE, <<>>)

Num(t, n) == Value(t, n, 0, <<>>, 0, FALSE, <<>>)
Cplx(t, re, im) == Value(t, re, im, <<>>, 0, FALSE, <<>>)
Str(t, s) == Value(t, 0, 0, s, 0, FALSE, <<>>)
Ptr(t, a) == Value(PtrTo(t), 0, 0, <<>>, a, FALSE, <<>>)
Agg(t, kids) == Value(t, 0, 0, <<>>, 0, FALSE, kids)
NilOf(t) == Value(t, 0, 0, <<>>, 0, TRUE, <<>>)

\* v.Elem() of a pointer or an interface.
Elem(v) ==
  IF v.t.kind = "Ptr" THEN (IF v.addr = 0 THEN Invalid ELSE heap[v.addr])
  ELSE IF v.kids = <<>> THEN Invalid ELSE v.kids[1]

\* The zero value of a type, as the specification defines it for the elision
\* of record fields: nil reference, false, empty text, zero numeric, empty
\* sequence or map, all-zero record.
RECURSIVE isZero(_)
RECURSIVE allZero(_, _)
allZero(vs, i) == IF i > Len(vs) THEN TRUE ELSE isZero(vs[i]) /\ allZero(vs, i + 1)

isZero(v) ==
  CASE v.t.kind = "String" -> v.str = <<>>
    [] v.t.kind \in {"Complex64", "Complex128"} -> v.num = 0 /\ v.im = 0
    [] v.t.kind \in ScalarKinds \ {"String", "Complex64", "Complex128"} -> v.num = 0
    [] v.t.kind \in {"Array", "Slice", "Map"} -> v.kids = <<>>
    [] v.t.kind = "Struct" -> allZero(v.kids, 1)
    [] v.t.kind = "Ptr" -> v.addr = 0
    [] v.t.kind = "Interface" -> v.kids = <<>>
    [] OTHER -> v.isNil

\* ------------------------------------------------------------------------
\* go/printer, as far as the comparator of the map case needs it
\* ------------------------------------------------------------------------

\* printer.Fprint of an expression or a type expression.  A struct type is
\* printed one field per line without the column alignment of the printer.
RECURSIVE Fprint(_)
RECURSIVE FprintList(_, _)
RECURSIVE FprintFields(_)
FprintList(ns, sep) ==
  IF ns = <<>> THEN <<>>
  ELSE IF Len(ns) = 1 THEN Fprint(ns[1])
  ELSE Fprint(ns[1]) \o sep \o FprintList(Tail(ns), sep)

FprintFields(fs) ==
  IF fs = <<>> THEN <<>>
  ELSE <<"\n", "\t">> \o FprintList(fs[1].kids, <<",", " ">>) \o <<"\t">>
       \o Fprint(fs[1].typ[1]) \o FprintFields(Tail(fs))

Fprint(n) ==
  CASE n.tag \in {"Ident", "BasicLit"} -> n.text
    [] n.tag = "CallExpr" ->
         Fprint(n.typ[1]) \o <<"(">> \o FprintList(n.kids, <<",", " ">>) \o <<")">>
    [] n.tag = "CompositeLit" ->
         Fprint(n.typ[1]) \o <<"{">> \o FprintList(n.kids, <<",", " ">>) \o <<"}">>
    [] n.tag = "KeyValueExpr" -> Fprint(n.kids[1]) \o <<":", " ">> \o Fprint(n.kids[2])
    [] n.tag = "UnaryExpr" -> <<"&">> \o Fprint(n.kids[1])
    [] n.tag = "ParenExpr" -> <<"(">> \o Fprint(n.kids[1]) \o <<")">>
    [] n.tag = "StarExpr" -> <<"*">> \o Fprint(n.kids[1])
    [] n.tag = "InterfaceType" ->
         <<"i", "n", "t", "e", "r", "f", "a", "c", "e", " ", "{", "\n", "}">>
    [] n.tag = "ArrayType" ->
         <<"[">> \o FprintList(n.kids, <<>>) \o <<"]">> \o Fprint(n.typ[1])
    [] n.tag = "MapType" ->
         <<"m", "a", "p", "[">> \o Fprint(n.kids[1]) \o <<"]">> \o Fprint(n.kids[2])
    [] n.tag = "StructType" ->
         <<"s", "t", "r", "u", "c", "t", " ", "{">> \o FprintFields(n.kids) \o <<"\n", "}">>
    [] n.tag = "Field" -> FprintList(n.kids, <<",", " ">>) \o <<" ">> \o Fprint(n.typ[1])
    [] n.tag = "FuncType" ->
         <<"f", "u", "n", "c", "(">> \o FprintList(n.kids, <<",", " ">>) \o <<")", " ">>
         \o Fprint(n.typ[1])
    [] n.tag = "ReturnStmt" ->
         <<"r", "e", "t", "u", "r", "n", " ">> \o Fprint(n.kids[1])
    [] n.tag = "FuncLit" ->
         Fprint(n.typ[1]) \o <<" ", "{", "\n", "\t">> \o Fprint(n.kids[1]) \o <<"\n", "}">>

\* The comparator handed to sort.Slice in the map case.
EntryLess(a, b) == TextLess(Fprint(a), Fprint(b))

\* sort.Slice(exprs, less), as an insertion sort.
RECURSIVE Insert(_, _)
Insert(sorted, e) ==
  IF sorted = <<>> THEN <<e>>
  ELSE IF EntryLess(e, Head(sorted)) THEN <<e>> \o sorted
  ELSE <<Head(sorted)>> \o Insert(Tail(sorted), e)

RECURSIVE SortSlice(_)
SortSlice(exprs) ==
  IF exprs = <<>> THEN <<>>
  ELSE Insert(SortSlice(SubSeq(exprs, 1, Len(exprs) - 1)), exprs[Len(exprs)])

\* The i-th entry (1..n) the map iterator yields for a map of n entries.
MapIter(n, sd, i) ==
  LET p == ((i - 1 + sd \div 2) % n) + 1
  IN IF sd % 2 = 1 THEN n + 1 - p ELSE p


\* ------------------------------------------------------------------------
\* Scope Manager
\* ------------------------------------------------------------------------

\* builderVar.
BuilderVar(name, typ, expr) == [name |-> name, typ |-> typ, expr |-> expr]

\* The index of the first binding with the same type and value expression
\* (reflect.DeepEqual on both), 0 when there is none.
RECURSIVE findVar(_, _, _, _)
findVar(vs, t, x, i) ==
  IF i > Len(vs) THEN 0
  ELSE IF t = vs[i].typ /\ x = vs[i].expr THEN i
  ELSE findVar(vs, t, x, i + 1)

\* getVarName with a slip: a new name is handed out without its binding
\* being appended to b.vars.
getVarNameNoAppend(vs, t, x) ==
  LET i == findVar(vs, t, x, 1)
  IN IF i # 0 THEN [name |-> vs[i].name, vars |-> vs]
     ELSE [name |-> <<"x">> \o NatText(Len(vs)), vars |-> vs]

\* b.getVarName(t, v): the name, and b.vars afterwards.
getVarName(vs, t, x) ==
  LET i == findVar(vs, t, x, 1)
      name == <<"x">> \o NatText(Len(vs))
  IN IF i # 0 THEN [name |-> vs[i].name, vars |-> vs]
     ELSE [name |-> name, vars |-> Append(vs, BuilderVar(name, t, x))]

\* ------------------------------------------------------------------------
\* Literal Builder
\* ------------------------------------------------------------------------

\* callExpr with a slip: the literal alone, without the conversion.
callExprBare(kind, name, value) == BasicLit(kind, value)
callExpr(kind, name, value) == CallExpr(Ident(name), <<BasicLit(kind, value)>>)

\* What a (sub)build returns: n the node (<<>> is nil), err the type carried
\* by the unexpectedTypeError (<<>> is no error), fatal the stack overflow
\* that ends the process, vars the builder's b.vars afterwards.  The loops
\* return the list of built expressions in n.
Ok(n, vs) == [n |-> <<n>>, err |-> <<>>, fatal |-> FALSE, vars |-> vs]
OkList(ns, vs) == [n |-> ns, err |-> <<>>, fatal |-> FALSE, vars |-> vs]
\* Err with a slip: the error carries the type of the zero Value, not v.Type().
ErrZeroType(t, vs) == [n |-> <<>>, err |-> <<Basic("Invalid")>>, fatal |-> FALSE, vars |-> vs]
Err(t, vs) == [n |-> <<>>, err |-> <<t>>, fatal |-> FALSE, vars |-> vs]
Fatal(vs) == [n |-> <<>>, err |-> <<>>, fatal |-> TRUE, vars |-> vs]
Failed(r) == r.err # <<>> \/ r.fatal
\* Abort with a slip: a node is returned next to the error.
AbortKeepNode(r) == [n |-> <<Ident(<<"n", "i", "l">>)>>, err |-> r.err, fatal |-> r.fatal, vars |-> r.vars]
Abort(r) == [n |-> <<>>, err |-> r.err, fatal |-> r.fatal, vars |-> r.vars]

\* stringLit with a slip: the raw form although strconv.Quote would escape
\* a character of the text.
stringLitNoEscapeCheck(s) ==
  IF Contains(s, "\"") /\ ~Contains(s, BackTick)
  THEN BasicLit("STRING", <<BackTick>> \o s \o <<BackTick>>)
  ELSE BasicLit("STRING", Quote(s))

\* stringLit with a slip: the raw form although the text holds a back-tick.
stringLitNoBackTickCheck(s) ==
  IF /\ Contains(s, "\"")
     /\ Len(Quote(Remove(s, "\""))) = Len(Remove(s, "\"")) + 2
  THEN BasicLit("STRING", <<BackTick>> \o s \o <<BackTick>>)
  ELSE BasicLit("STRING", Quote(s))

\* The string case: the raw form when the text holds a double quote, no
\* back-tick, and nothing strconv.Quote escapes once the quotes are removed.
stringLit(s) ==
  IF /\ Contains(s, "\"")
     /\ ~Contains(s, BackTick)
     /\ Len(Quote(Remove(s, "\""))) = Len(Remove(s, "\"")) + 2
  THEN BasicLit("STRING", <<BackTick>> \o s \o <<BackTick>>)
  ELSE BasicLit("STRING", Quote(s))

\* The address-of case once the pointee w is built: a BasicLit goes through
\* the scope, anything else is the operand of & as it is.
ptrExpr(v, w) ==
  IF w.n[1].tag = "BasicLit"
  THEN LET t == buildType(Elem(v).t)
       IN IF t.err # <<>> THEN Err(t.err[1], w.vars)
          ELSE LET g == getVarName(w.vars, t.t[1], w.n[1])
               IN Ok(UnaryExpr(Ident(g.name)), g.vars)
  ELSE Ok(UnaryExpr(w.n[1]), w.vars)

\* compositeOf with a slip: the error of buildType is dropped.
compositeOfNoErr(v, exprs, vs) ==
  LET t == buildType(v.t)
  IN Ok(CompositeLit(IF t.err # <<>> THEN Ident(<<"n", "i", "l">>) ELSE t.t[1], exprs), vs)

\* After the element loop of a sequence, map or struct: the composite
\* literal of the value's type.
compositeOf(v, exprs, vs) ==
  LET t == buildType(v.t)
  IN IF t.err # <<>> THEN Err(t.err[1], vs) ELSE Ok(CompositeLit(t.t[1], exprs), vs)

RECURSIVE buildInner(_, _, _, _)
RECURSIVE buildElems(_, _, _, _, _, _)
RECURSIVE buildEntries(_, _, _, _, _, _)
RECURSIVE buildFields(_, _, _, _, _, _)

\* b.buildExpr(v): buildInner, whose result is always an ast.Expr.
buildExpr(v, vs, sd, d) == buildInner(v, vs, sd, d)

\* buildElems with a slip: a zero element is skipped, as a zero field is.
buildElemsSkipZero(v, i, exprs, vs, sd, d) ==
  IF i > Len(v.kids) THEN OkList(exprs, vs)
  ELSE IF isZero(v.kids[i]) THEN buildElems(v, i + 1, exprs, vs, sd, d)
  ELSE LET w == buildExpr(v.kids[i], vs, sd, d)
       IN IF Failed(w) THEN Abort(w)
          ELSE buildElems(v, i + 1, Append(exprs, w.n[1]), w.vars, sd, d)

\* The loop of the array and slice case, from element i on.
buildElems(v, i, exprs, vs, sd, d) ==
  IF i > Len(v.kids) THEN OkList(exprs, vs)
  ELSE LET w == buildExpr(v.kids[i], vs, sd, d)
       IN IF Failed(w) THEN Abort(w)
          ELSE buildElems(v, i + 1, Append(exprs, w.n[1]), w.vars, sd, d)

\* The loop of the map case, from the i-th entry the iterator yields on.
buildEntries(v, i, exprs, vs, sd, d) ==
  IF 2 * i > Len(v.kids) THEN OkList(exprs, vs)
  ELSE LET j == MapIter(Len(v.kids) \div 2, sd, i)
           k == buildExpr(v.kids[2 * j - 1], vs, sd, d)
       IN IF Failed(k) THEN Abort(k)
          ELSE LET w == buildExpr(v.kids[2 * j], k.vars, sd, d)
               IN IF Failed(w) THEN Abort(w)
                  ELSE buildEntries(v, i + 1,
                                    Append(exprs, KeyValueExpr(k.n[1], w.n[1])),
                                    w.vars, sd, d)

\* buildFields with a slip: a zero field is not skipped.
buildFieldsAll(v, i, exprs, vs, sd, d) ==
  IF i > Len(v.kids) THEN OkList(exprs, vs)
  ELSE LET w == buildExpr(v.kids[i], vs, sd, d)
       IN IF Failed(w) THEN Abort(w)
          ELSE buildFields(v, i + 1,
                           Append(exprs, KeyValueExpr(Ident(v.t.fields[i]), w.n[1])),
                           w.vars, sd, d)

\* buildFields with a slip: the element is the value alone, without its key.
buildFieldsUnkeyed(v, i, exprs, vs, sd, d) ==
  IF i > Len(v.kids) THEN OkList(exprs, vs)
  ELSE IF isZero(v.kids[i]) THEN buildFields(v, i + 1, exprs, vs, sd, d)
  ELSE LET w == buildExpr(v.kids[i], vs, sd, d)
       IN IF Failed(w) THEN Abort(w)
          ELSE buildFields(v, i + 1, Append(exprs, w.n[1]), w.vars, sd, d)

\* The loop of the struct case, from field i on.
buildFields(v, i, exprs, vs, sd, d) ==
  IF i > Len(v.kids) THEN OkList(exprs, vs)
  ELSE IF isZero(v.kids[i]) THEN buildFields(v, i + 1, exprs, vs, sd, d)
  ELSE LET w == buildExpr(v.kids[i], vs, sd, d)
       IN IF Failed(w) THEN Abort(w)
          ELSE buildFields(v, i + 1,
                           Append(exprs, KeyValueExpr(Ident(v.t.fields[i]), w.n[1])),
                           w.vars, sd, d)

\* b.buildInner(v) with b.vars = vs, as the d-th nested call.
buildInner(v, vs, sd, d) ==
  IF d > MaxStack THEN Fatal(vs)
  ELSE
  CASE v.t.kind = "Invalid" -> Ok(Ident(<<"n", "i", "l">>), vs)
    [] v.t.kind = "Bool" ->
         IF v.num = 1 THEN Ok(Ident(<<"t", "r", "u", "e">>), vs)
         ELSE Ok(Ident(<<"f", "a", "l", "s", "e">>), vs)
    [] v.t.kind = "Int" -> Ok(BasicLit("INT", IntText(v.num)), vs)
    [] v.t.kind \in {"Int8", "Int16", "Int32", "Int64", "Uint", "Uint8", "Uint16",
                     "Uint32", "Uint64"} ->
         Ok(callExpr("INT", KindName(v.t.kind), IntText(v.num)), vs)
    [] v.t.kind = "Float32" -> Ok(callExpr("FLOAT", KindName("Float32"), FloatText(v.num)), vs)
    [] v.t.kind = "Float64" -> Ok(BasicLit("FLOAT", FloatText(v.num)), vs)
    [] v.t.kind \in {"Complex64", "Complex128"} ->
         Ok(callExpr("FLOAT", KindName(v.t.kind), ComplexText(v.num, v.im)), vs)
    [] v.t.kind = "String" -> Ok(stringLit(v.str), vs)
    [] v.t.kind = "Interface" ->
         LET e == buildExpr(Elem(v), vs, sd, d + 1)
         IN IF Failed(e) THEN Abort(e)
            ELSE LET t == buildType(v.t)
                 IN IF t.err # <<>> THEN Err(t.err[1], e.vars)
                    ELSE Ok(CallExpr(t.t[1], e.n), e.vars)
    [] v.t.kind \in {"Array", "Slice"} ->
         LET r == buildElems(v, 1, <<>>, vs, sd, d + 1)
         IN IF Failed(r) THEN r ELSE compositeOf(v, r.n, r.vars)
    [] v.t.kind = "Map" ->
         LET r == buildEntries(v, 1, <<>>, vs, sd, d + 1)
         IN IF Failed(r) THEN r ELSE compositeOf(v, SortSlice(r.n), r.vars)
    [] v.t.kind = "Struct" ->
         LET r == buildFields(v, 1, <<>>, vs, sd, d + 1)
         IN IF Failed(r) THEN r ELSE compositeOf(v, r.n, r.vars)
    [] v.t.kind = "Ptr" ->
         LET w == buildExpr(Elem(v), vs, sd, d + 1)
         IN IF Failed(w) THEN Abort(w) ELSE ptrExpr(v, w)
    [] OTHER -> Err(v.t, vs)

\* The parameters and the arguments of the wrapping closure, one per binding.
params(vs) == [i \in 1..Len(vs) |-> Field(<<Ident(vs[i].name)>>, vs[i].typ)]
\* args with a slip: the arguments in the reverse of the creation order.
argsReversed(vs) == [i \in 1..Len(vs) |-> vs[Len(vs) + 1 - i].expr]
args(vs) == [i \in 1..Len(vs) |-> vs[i].expr]

\* b.build(v) from the return of buildInner on: r is what buildInner
\* returned, with b.vars as r.vars.
wrapVars(v, r) ==
  IF Failed(r) THEN Abort(r)
  ELSE IF Len(r.vars) = 0 THEN r
  ELSE LET t == buildType(v.t)
       IN IF t.err # <<>> THEN Err(t.err[1], r.vars)
          ELSE Ok(CallExpr(ParenExpr(FuncLit(FuncType(params(r.vars), t.t[1]),
                                             ReturnStmt(r.n[1]))),
                           args(r.vars)),
                  r.vars)

\* (&builder{}).build(v): b.vars starts empty.
build(v, sd) == wrapVars(v, buildInner(v, <<>>, sd, 1))

\* &builder{} with a slip: one builder for the package, handed to every call.
newBuilderShared(bs) == [id |-> 1, store |-> IF bs = <<>> THEN << <<>> >> ELSE bs]
\* &builder{}: a new builder object, its vars empty.
newBuilder(bs) == [id |-> Len(bs) + 1, store |-> Append(bs, <<>>)]

\* Build(x): reflect.ValueOf(x) is the root.
Build(x, sd) == build(x, sd)

\* ------------------------------------------------------------------------
\* The inputs of a call
\* ------------------------------------------------------------------------

\* The largest number of entries of a map of the inputs; the iterator's
\* orders are the rotations of the stored entries, in either direction.
MaxMapLen == 3

Seeds == 0..(2 * MaxMapLen - 1)

TInt == Basic("Int")
TString == Basic("String")
TIface == Basic("Interface")
\* type y int; type z string (the named scalar types of the tests).
TY == Named("Int", <<"y">>)
TZ == Named("String", <<"z">>)

\* Scalar values: every category of scalar, default and sized widths, equal
\* values of different types, and the named scalar types.
Scalars ==
  { Num(TInt, 1), Num(TInt, 10), Num(Basic("Int8"), 10), Num(Basic("Uint16"), 10),
    Num(Basic("Float64"), 100), Num(Basic("Float64"), 31), Num(Basic("Float32"), 100),
    Cplx(Basic("Complex128"), 10, -20),
    Num(Basic("Bool"), 1), Num(Basic("Bool"), 0),
    Str(TString, <<"a">>), Str(TString, <<"a", "\"">>),
    Num(TY, 1), Str(TZ, <<"a">>) }

\* Values of the unsupported kinds.
Unsupported ==
  { NilOf(Basic("Func")), Agg(Basic("Func"), <<>>), NilOf(Basic("Chan")),
    Num(Basic("UnsafePointer"), 0) }

In(h, r) == [heap |-> h, root |-> r]

\* A value held in a slot of type interface{}.
Boxed(v) == Agg(TIface, <<v>>)

\* A scalar, nil, or an unsupported value as the root.
RootInputs == { In(<<>>, s) : s \in Scalars \cup Unsupported \cup {Invalid} }

\* Every numeric kind as the root: negative, zero and positive integers,
\* integral and fractional floats (in tenths), complex numbers.
SignedKinds == {"Int", "Int8", "Int16", "Int32", "Int64"}
UnsignedKinds == {"Uint", "Uint8", "Uint16", "Uint32", "Uint64"}
NumInputs ==
  { In(<<>>, Num(Basic(k), n)) : k \in SignedKinds, n \in {-128, 0, 7, 128} }
  \cup { In(<<>>, Num(Basic(k), n)) : k \in UnsignedKinds, n \in {0, 7, 255} }
  \cup { In(<<>>, Num(Basic(k), n)) : k \in {"Float32", "Float64"}, n \in {-31, 0, 5, 30, 31, 100} }
  \cup { In(<<>>, Cplx(Basic(k), c[1], c[2])) :
           k \in {"Complex64", "Complex128"}, c \in {<<10, -20>>, <<0, 0>>, <<-31, 5>>} }

\* Texts of up to MaxTextLen characters: a letter, the double quote, the
\* back-tick, and the characters strconv.Quote escapes.
MaxTextLen == 2
TextChars == {"a", "\"", BackTick, "\n", "\r", "\\"}
Texts == UNION { [1..k -> TextChars] : k \in 0..MaxTextLen }
TextInputs == { In(<<>>, Str(TString, s)) : s \in Texts }

\* A pointer to a scalar, a nil pointer, a pointer to a pointer to a scalar.
PtrInputs ==
  { In(<<s>>, Ptr(s.t, 1)) : s \in Scalars }
  \cup { In(<<>>, Ptr(TInt, 0)) }
  \cup { In(<<s, Ptr(s.t, 1)>>, Ptr(PtrTo(s.t), 2)) : s \in Scalars }

\* struct { a *T1; b *T2 } with both pointers set, to any two scalars.
PairType(t1, t2) == StructOf(<<>>, << <<"a">>, <<"b">> >>, <<PtrTo(t1), PtrTo(t2)>>)
PairInputs ==
  { In(<<s1, s2>>, Agg(PairType(s1.t, s2.t), <<Ptr(s1.t, 1), Ptr(s2.t, 2)>>)) :
      s1 \in Scalars, s2 \in Scalars }

SameType == { p \in Scalars \X Scalars : p[1].t = p[2].t }

\* []T and [2]T of two scalars; []*T of two pointers, distinct or aliased or nil.
SeqInputs ==
  { In(<<>>, Agg(SliceOf(p[1].t), <<p[1], p[2]>>)) : p \in SameType }
  \cup { In(<<>>, Agg(ArrayOf(2, p[1].t), <<p[1], p[2]>>)) : p \in SameType }
  \cup { In(<<p[1], p[2]>>, Agg(SliceOf(PtrTo(p[1].t)), <<Ptr(p[1].t, a[1]), Ptr(p[1].t, a[2])>>)) :
           p \in SameType, a \in {<<1, 2>>, <<1, 1>>, <<2, 0>>} }
  \cup { In(<<>>, NilOf(SliceOf(TInt))), In(<<>>, Agg(SliceOf(TInt), <<>>)),
         In(<<>>, Agg(SliceOf(Basic("Func")), <<>>)),
         In(<<>>, Agg(SliceOf(SliceOf(TInt)), <<Agg(SliceOf(TInt), <<Num(TInt, 1)>>)>>)) }
  \* sequences with zero elements: [3]int{-128, 0, 128}, []int{0, 0}, [2][1]int{{0}, {1}}
  \cup { In(<<>>, Agg(ArrayOf(3, TInt), <<Num(TInt, -128), Num(TInt, 0), Num(TInt, 128)>>)),
         In(<<>>, Agg(SliceOf(TInt), <<Num(TInt, 0), Num(TInt, 0)>>)),
         In(<<>>, Agg(SliceOf(TString), <<Str(TString, <<>>), Str(TString, <<"a">>)>>)),
         In(<<>>, Agg(ArrayOf(2, ArrayOf(1, TInt)),
                      <<Agg(ArrayOf(1, TInt), <<Num(TInt, 0)>>), Agg(ArrayOf(1, TInt), <<Num(TInt, 1)>>)>>)) }

IntKeys == { <<1, 10>>, <<10, 1>>, <<1, 2>>, <<2, 10>> }

\* map[int]*T, map[int]T, map[string]int, map[*int]int and a nil map; the
\* entries are listed in the order the map stores them.
MapInputs ==
  { In(<<p[1], p[2]>>,
       Agg(MapOf(TInt, PtrTo(p[1].t)),
           <<Num(TInt, k[1]), Ptr(p[1].t, 1), Num(TInt, k[2]), Ptr(p[1].t, 2)>>)) :
      p \in SameType, k \in IntKeys }
  \cup { In(<<Num(TInt, 10), Num(TInt, 1), Num(TInt, 10)>>,
            Agg(MapOf(TInt, PtrTo(TInt)),
                <<Num(TInt, 1), Ptr(TInt, a[1]), Num(TInt, 2), Ptr(TInt, a[2]),
                  Num(TInt, 10), Ptr(TInt, a[3])>>)) :
           a \in {<<1, 2, 3>>, <<2, 1, 2>>, <<3, 3, 1>>} }
  \cup { In(<<>>, Agg(MapOf(TInt, p[1].t), <<Num(TInt, k[1]), p[1], Num(TInt, k[2]), p[2]>>)) :
           p \in SameType, k \in {<<1, 10>>, <<2, 1>>} }
  \cup { In(<<>>, Agg(MapOf(TString, TInt),
                      <<Str(TString, k[1]), Num(TInt, 1), Str(TString, k[2]), Num(TInt, 2)>>)) :
           k \in { << <<"b">>, <<"a">> >>, << <<"a">>, <<"a", "b">> >>, << <<"a", "\"">>, <<"a">> >> } }
  \cup { In(<<Num(TInt, n[1]), Num(TInt, n[2])>>,
            Agg(MapOf(PtrTo(TInt), TInt), <<Ptr(TInt, 1), Num(TInt, 1), Ptr(TInt, 2), Num(TInt, 2)>>)) :
           n \in {<<1, 10>>, <<10, 10>>} }
  \cup { In(<<>>, NilOf(MapOf(TInt, TInt))) }
  \cup { In(<<Num(TInt, 1)>>,
            Agg(MapOf(TInt, TIface),
                <<Num(TInt, 1), Boxed(u[1]), Num(TInt, 2), Boxed(Ptr(TInt, 1)), Num(TInt, 3), Boxed(u[2])>>)) :
           u \in Unsupported \X Unsupported }

\* []interface{} of two boxed values: scalars, pointers to scalars, nil, and
\* values of unsupported kinds (after a supported one, and before).
IfaceInputs ==
  { In(<<>>, Agg(SliceOf(TIface), <<Boxed(s1), Boxed(s2)>>)) :
      s1 \in Scalars \cup Unsupported, s2 \in {Num(TInt, 1), Agg(Basic("Func"), <<>>)} }
  \cup { In(<<s>>, Agg(SliceOf(TIface), <<Boxed(Ptr(s.t, 1)), Boxed(u)>>)) :
           s \in Scalars, u \in Unsupported \cup {Num(TInt, 1)} }
  \cup { In(<<>>, Agg(SliceOf(TIface), <<Agg(TIface, <<>>)>>)) }

\* A slot of a named interface type with a method: error, holding a value of
\* a named string type that implements it; []error of one or two of them.
TError == Named("Interface", <<"e", "r", "r", "o", "r">>)
TMsg == Named("String", <<"m", "s", "g">>)
ErrorInputs ==
  { In(<<>>, Agg(SliceOf(TError), <<Agg(TError, <<Str(TMsg, <<"a">>)>>)>>)),
    In(<<>>, Agg(SliceOf(TError), <<Agg(TError, <<Str(TMsg, <<"a">>)>>), Agg(TError, <<>>)>>)),
    In(<<>>, Agg(ArrayOf(1, TError), <<Agg(TError, <<Str(TMsg, <<"a", "\"">>)>>)>>)) }

\* Anonymous structs with field tags: struct { name string; ptr1 *int;
\* ptr2 *int `x` } as the tests have it, and two int fields with the same
\* tag, with different tags, and with a tag on one of them.
TTagged ==
  Tagged(StructOf(<<>>, << <<"n", "a", "m", "e">>, <<"p", "t", "r", "1">>, <<"p", "t", "r", "2">> >>,
                  <<TString, PtrTo(TInt), PtrTo(TInt)>>),
         << <<>>, <<>>, <<"x">> >>)
TIntPair(tags) == Tagged(StructOf(<<>>, << <<"a">>, <<"b">> >>, <<TInt, TInt>>), tags)
TagInputs ==
  { In(<<>>, Agg(TTagged, <<Str(TString, <<"a">>), Ptr(TInt, 0), Ptr(TInt, 0)>>)),
    In(<<Agg(TTagged, <<Str(TString, <<"a">>), Ptr(TInt, 0), Ptr(TInt, 0)>>)>>, Ptr(TTagged, 1)) }
  \cup { In(<<>>, Agg(TIntPair(g), <<Num(TInt, 1), Num(TInt, 2)>>)) :
           g \in { <<>>, << <<"x">>, <<"x">> >>, << <<"x">>, <<"y">> >>, << <<>>, <<"x">> >> } }

\* Unsupported types in the type of a value that holds no unsupported value,
\* or a nil one: type h struct { n int; f func() } and the anonymous struct
\* of the same fields, with f nil or set and n zero or not; an empty and a
\* nil map[int]func(); a nil *func(); a []chan int holding a nil channel.
TFunc == Basic("Func")
TH == StructOf(<<"h">>, << <<"n">>, <<"f">> >>, <<TInt, TFunc>>)
THAnon == StructOf(<<>>, << <<"n">>, <<"f">> >>, <<TInt, TFunc>>)
HolderInputs ==
  { In(<<>>, Agg(t, <<Num(TInt, n), f>>)) :
      t \in {TH, THAnon}, n \in {0, 1}, f \in {NilOf(TFunc), Agg(TFunc, <<>>)} }
  \cup { In(<<Agg(TH, <<Num(TInt, 1), NilOf(TFunc)>>)>>, Ptr(TH, 1)),
         In(<<>>, Agg(MapOf(TInt, TFunc), <<>>)),
         In(<<>>, NilOf(MapOf(TInt, TFunc))),
         In(<<>>, Ptr(TFunc, 0)),
         In(<<>>, Agg(SliceOf(Basic("Chan")), <<NilOf(Basic("Chan"))>>)) }

\* type x struct { name string; ptr *int }, and a record that refers to
\* itself: type n struct { id int; next *n }.  A named struct type is
\* described by its name alone, so TN lists only its first field's type.
TX == StructOf(<<"x">>, << <<"n", "a", "m", "e">>, <<"p", "t", "r">> >>, <<TString, PtrTo(TInt)>>)
TN == Type("Struct", <<"n">>, 0, <<TInt>>, << <<"i", "d">>, <<"n", "e", "x", "t">> >>)
NVal(id, next) == Value(TN, 0, 0, <<>>, 0, FALSE,
                        <<Num(TInt, id), Value(Type("Ptr", <<>>, 0, <<TN>>, <<>>), 0, 0, <<>>, next, FALSE, <<>>)>>)

RecordInputs ==
  { In(<<Num(TInt, 10)>>, Agg(TX, <<Str(TString, s), Ptr(TInt, a)>>)) :
      s \in {<<>>, <<"a">>}, a \in {0, 1} }
  \cup { In(<<Num(TInt, 10), Agg(TX, <<Str(TString, <<"a">>), Ptr(TInt, 1)>>)>>, Ptr(TX, 2)) }
  \cup { In(<<>>, Agg(StructOf(<<>>, <<>>, <<>>), <<>>)) }
  \* acyclic chains of records
  \cup { In(<<NVal(2, 0)>>, NVal(1, 1)), In(<<NVal(2, 2), NVal(3, 0)>>, NVal(1, 1)) }
  \* cyclic: a record that points to itself, and a cycle of two records
  \cup { In(<<NVal(1, 1)>>, NVal(1, 1)), In(<<NVal(1, 1)>>, Ptr(TN, 1)),
         In(<<NVal(1, 2), NVal(2, 1)>>, Ptr(TN, 1)) }

\* struct { b bool; i int; s string; l []int; r x }: every field zero or
\* not, the slice nil, empty or holding a zero element.
TMix ==
  StructOf(<<>>, << <<"b">>, <<"i">>, <<"s">>, <<"l">>, <<"r">> >>,
           <<Basic("Bool"), TInt, TString, SliceOf(TInt), TX>>)
MixInputs ==
  { In(<<>>, Agg(TMix, <<Num(Basic("Bool"), b), Num(TInt, i), Str(TString, s), l,
                         Agg(TX, <<Str(TString, r), Ptr(TInt, 0)>>)>>)) :
      b \in {0, 1}, i \in {0, 1}, s \in {<<>>, <<"a">>},
      l \in {NilOf(SliceOf(TInt)), Agg(SliceOf(TInt), <<>>), Agg(SliceOf(TInt), <<Num(TInt, 0)>>)},
      r \in {<<>>, <<"a">>} }

Inputs ==
  RootInputs \cup PtrInputs \cup PairInputs \cup SeqInputs \cup MapInputs
  \cup IfaceInputs \cup RecordInputs \cup MixInputs \cup NumInputs \cup TextInputs \cup ErrorInputs \cup TagInputs
  \cup HolderInputs

\* ------------------------------------------------------------------------
\* The calls
\* ------------------------------------------------------------------------

\* Before any call: the caller holds a value and calls Build once.
NoResult == [n |-> <<>>, err |-> <<>>, fatal |-> FALSE, vars |-> <<>>]

Init ==
  /\ \E in \in Inputs : heap = in.heap /\ root = in.root
  /\ seed \in Seeds
  /\ pc = "idle"
  /\ result = NoResult
  /\ calls = <<>>
  /\ builders = <<>>

\* The call Build(x): the whole walk and the wrapping, or the stack overflow.
Call ==
  /\ pc = "idle"
  /\ result' = Build(root, seed)
  /\ pc' = "done"
  /\ UNCHANGED <<heap, root, seed, calls, builders>>

Next == Call

Spec == Init /\ [][Next]_vars

\* ------------------------------------------------------------------------
\* Calls in progress at the same time
\* ------------------------------------------------------------------------

\* The number of Build calls in progress at once.
NCalls == 2

\* The memory the callers share, and what each may pass to Build: a plain
\* scalar, pointers to scalars, a sequence and a map of pointers to equal and
\* to different scalars, and a value Build rejects.
CallHeap == <<Num(TInt, 1), Num(TInt, 10), Num(TInt, 1), Str(TString, <<"a">>)>>
CallArgs ==
  { [root |-> r, sd |-> 0] :
      r \in { Num(TInt, 1), Ptr(TInt, 1), Ptr(TString, 4),
              Agg(SliceOf(PtrTo(TInt)), <<Ptr(TInt, 1), Ptr(TInt, 2), Ptr(TInt, 3)>>),
              Agg(Basic("Func"), <<>>) } }
  \cup { [root |-> Agg(MapOf(TInt, PtrTo(TInt)),
                       <<Num(TInt, 1), Ptr(TInt, 2), Num(TInt, 2), Ptr(TInt, 1)>>),
          sd |-> 1] }

IdleCall(a) ==
  [root |-> a.root, sd |-> a.sd, pc |-> "idle", b |-> 0, r |-> NoResult, out |-> NoResult]

InitCalls ==
  /\ heap = CallHeap
  /\ root = Invalid /\ seed = 0 /\ pc = "calls" /\ result = NoResult
  /\ calls \in [1..NCalls -> { IdleCall(a) : a \in CallArgs }]
  /\ builders = <<>>

\* Build, first step of call c: &builder{}.
NewBuilder(c) ==
  /\ calls[c].pc = "idle"
  /\ LET nb == newBuilder(builders)
     IN /\ builders' = nb.store
        /\ calls' = [calls EXCEPT ![c].b = nb.id, ![c].pc = "new"]
  /\ UNCHANGED <<heap, root, seed, pc, result>>

\* b.build(v), first statement: n, err := b.buildInner(v), on the builder b
\* of call c.
Inner(c) ==
  /\ calls[c].pc = "new"
  /\ LET r == buildInner(calls[c].root, builders[calls[c].b], calls[c].sd, 1)
     IN /\ builders' = [builders EXCEPT ![calls[c].b] = r.vars]
        /\ calls' = [calls EXCEPT ![c].r = r, ![c].pc = "walked"]
  /\ UNCHANGED <<heap, root, seed, pc, result>>

\* b.build(v), the rest: the error, the bare node, or the closure over
\* b.vars; Build returns it.
Wrap(c) ==
  /\ calls[c].pc = "walked"
  /\ calls' = [calls EXCEPT ![c].out = wrapVars(calls[c].root,
                                                [calls[c].r EXCEPT !.vars = builders[calls[c].b]]),
                            ![c].pc = "done"]
  /\ UNCHANGED <<heap, root, seed, pc, result, builders>>

NextCalls == \E c \in 1..NCalls : NewBuilder(c) \/ Inner(c) \/ Wrap(c)

SpecCalls == InitCalls /\ [][NextCalls]_vars
\* ------------------------------------------------------------------------
\* Reading a returned tree
\* ------------------------------------------------------------------------

Range(q) == { q[i] : i \in 1..Len(q) }

RECURSIVE Subnodes(_)
Subnodes(n) == {n} \cup UNION { Subnodes(k) : k \in Range(n.typ) \cup Range(n.kids) }

Done == pc = "done"
Returned == Done /\ result.n # <<>>

\* Is the returned node the immediately-invoked function literal?
Wrapped(n) == n.tag = "CallExpr" /\ n.typ[1].tag = "ParenExpr"

\* The root expression inside the returned node.
Body(n) == IF Wrapped(n) THEN n.typ[1].kids[1].kids[1].kids[1] ELSE n

\* A bare scalar literal: a numeric or string literal, true or false, or a
\* sized numeric's call of its type name on a literal.
IsScalarLit(n) ==
  \/ n.tag = "BasicLit"
  \/ n.tag = "Ident" /\ n.text \in {<<"t", "r", "u", "e">>, <<"f", "a", "l", "s", "e">>}
  \/ /\ n.tag = "CallExpr"
     /\ n.typ[1].tag = "Ident"
     /\ Len(n.kids) = 1
     /\ n.kids[1].tag = "BasicLit"

\* The map composite literals of a tree.
MapLits(n) == { c \in Subnodes(n) : c.tag = "CompositeLit" /\ c.typ[1].tag = "MapType" }

\* ------------------------------------------------------------------------
\* Claims
\* ------------------------------------------------------------------------

\* C2: whatever order the runtime iterates a map's entries in, Build returns
\* the same tree (same entry order, binding names, parameters, arguments).
C2_Determinism ==
  Done => \A sd \in Seeds : Build(root, sd).n = result.n

\* C3: the entries of every map literal are in ascending order of the
\* rendered text of their keys alone, and the literal of a map has exactly
\* one entry per key of the map.
C3_KeysAscending ==
  Returned =>
    /\ \A c \in MapLits(result.n[1]) :
         \A i \in 1..Len(c.kids) : \A j \in 1..Len(c.kids) :
           TextLess(Fprint(c.kids[i].kids[1]), Fprint(c.kids[j].kids[1])) => i < j
    /\ root.t.kind = "Map" => 2 * Len(Body(result.n[1]).kids) = Len(root.kids)

\* C4: no address-of node of a returned tree has a bare scalar literal as
\* its operand.
C4_NoAddressOfLiteral ==
  Returned =>
    \A u \in Subnodes(result.n[1]) : u.tag = "UnaryExpr" => ~IsScalarLit(u.kids[1])

\* The pointers to scalars held directly by a root record or sequence of
\* which no element is elided: element i of the literal is built from
\* element i of the root.
Aligned ==
  /\ root.t.kind \in {"Struct", "Array", "Slice"}
  /\ \A i \in 1..Len(root.kids) : ~isZero(root.kids[i])

RefIdx ==
  { i \in 1..Len(root.kids) :
      /\ root.kids[i].t.kind = "Ptr"
      /\ root.kids[i].addr # 0
      /\ heap[root.kids[i].addr].t.kind \in ScalarKinds }

Target(i) == heap[root.kids[i].addr]

\* The expression built at reference site i.
Site(i) ==
  LET e == Body(result.n[1]).kids[i]
  IN IF root.t.kind = "Struct" THEN e.kids[2] ELSE e

\* The bindings of the scope for the scalar v: those whose type is the
\* description of v's type and whose value is the literal of v.
BindingsFor(v) ==
  { k \in 1..Len(result.vars) :
      /\ result.vars[k].typ = buildType(v.t).t[1]
      /\ result.vars[k].expr = buildInner(v, <<>>, seed, 1).n[1] }

\* The parameters of the wrapping closure.
Params(n) == n.typ[1].kids[1].typ[1].kids

\* Site i reads binding k.
Reads(i, k) == Site(i) = UnaryExpr(Ident(result.vars[k].name))

\* C5: two references to equal scalars of the same type end with exactly one
\* binding for that (type, value), exactly one parameter for it, and both
\* reference sites read that parameter.
C5_PointerDedup ==
  (Returned /\ Aligned) =>
    \A i \in RefIdx : \A j \in RefIdx :
      (i # j /\ Target(i) = Target(j)) =>
        /\ Cardinality(BindingsFor(Target(i))) = 1
        /\ Wrapped(result.n[1])
        /\ \A k \in BindingsFor(Target(i)) :
             /\ Cardinality({ q \in 1..Len(Params(result.n[1])) :
                               Params(result.n[1])[q].kids[1].text = result.vars[k].name }) = 1
             /\ Reads(i, k)
             /\ Reads(j, k)

\* C6: binding names are pairwise distinct; a bind request reuses a binding
\* exactly when type and value expression are equal; so two pointers to
\* scalars that differ in type or value read two distinct bindings.
C6_ScopeInvariant ==
  Done =>
    /\ \A k \in 1..Len(result.vars) : \A q \in 1..Len(result.vars) :
         k # q =>
           /\ result.vars[k].name # result.vars[q].name
           /\ ~(result.vars[k].typ = result.vars[q].typ /\ result.vars[k].expr = result.vars[q].expr)
    /\ (Returned /\ Aligned) =>
         \A i \in RefIdx : \A k \in 1..Len(result.vars) :
           Reads(i, k) => k \in BindingsFor(Target(i))
    /\ (Returned /\ Aligned) =>
         \A i \in RefIdx : \A j \in RefIdx :
           (i # j /\ Target(i) # Target(j)) =>
             \E k \in 1..Len(result.vars) : \E q \in 1..Len(result.vars) :
               k # q /\ Reads(i, k) /\ Reads(j, q)

\* C7: with an empty scope Build returns the root expression itself; with
\* bindings it returns the call of a function literal with one parameter
\* (name, type) per binding in creation order, the bindings' values as the
\* arguments in that order, the description of the root's type as the result
\* type, and a body that returns the root expression.
C7_Wrapping ==
  Returned =>
    LET inner == buildInner(root, <<>>, seed, 1)
        n == result.n[1]
    IN IF Len(inner.vars) = 0 THEN n = inner.n[1]
       ELSE /\ n.tag = "CallExpr"
            /\ n.typ[1].tag = "ParenExpr"
            /\ n.typ[1].kids[1].tag = "FuncLit"
            /\ Len(Params(n)) = Len(inner.vars)
            /\ Len(n.kids) = Len(inner.vars)
            /\ \A k \in 1..Len(inner.vars) :
                 /\ Params(n)[k].tag = "Field"
                 /\ Params(n)[k].kids = <<Ident(inner.vars[k].name)>>
                 /\ Params(n)[k].typ = <<inner.vars[k].typ>>
                 /\ n.kids[k] = inner.vars[k].expr
            /\ n.typ[1].kids[1].typ[1].typ = buildType(root.t).t
            /\ n.typ[1].kids[1].kids = <<ReturnStmt(inner.n[1])>>

C7_Witness ==
  /\ Returned
  /\ Len(result.vars) = 2
  /\ Wrapped(result.n[1])
  /\ result.vars[1].expr # result.vars[2].expr

UnsupportedKinds == {"Func", "Chan", "UnsafePointer"}

\* C8: Build on a function, a channel or a raw memory handle returns the
\* unsupported-type error that names the value's type, and no node.
C8_UnsupportedRoot ==
  (Done /\ root.t.kind \in UnsupportedKinds) =>
    /\ result.n = <<>>
    /\ result.err = <<root.t>>
    /\ ~result.fatal

C8_Witness == Done /\ root.t.kind = "Chan" /\ result.err # <<>>

\* The cells a value holds pointers to, without following them.
RECURSIVE PtrsIn(_)
PtrsIn(v) ==
  (IF v.t.kind = "Ptr" /\ v.addr # 0 THEN {v.addr} ELSE {})
  \cup UNION { PtrsIn(k) : k \in Range(v.kids) }

RECURSIVE ReachFrom(_, _)
ReachFrom(S, n) ==
  IF n = 0 THEN S ELSE ReachFrom(S \cup UNION { PtrsIn(heap[a]) : a \in S }, n - 1)

\* The object graph under the root has a cycle.
Cyclic ==
  \E a \in ReachFrom(PtrsIn(root), Len(heap)) : a \in ReachFrom(PtrsIn(heap[a]), Len(heap))

\* The types whose build or description fails, in the order of the walk of an
\* acyclic value: the children first (elements; keys and values as iterated;
\* the fields that are not elided; the pointee; the boxed value), then the
\* description of the value's own type.
RECURSIVE FailSeq(_)
RECURSIVE FailSeqList(_)
FailSeqList(vs) == IF vs = <<>> THEN <<>> ELSE FailSeq(Head(vs)) \o FailSeqList(Tail(vs))

FailSeq(v) ==
  CASE v.t.kind \in ScalarKinds \cup {"Invalid"} -> <<>>
    [] v.t.kind = "Ptr" -> FailSeq(Elem(v))
    [] v.t.kind = "Interface" -> FailSeq(Elem(v)) \o buildType(v.t).err
    [] v.t.kind \in {"Array", "Slice"} -> FailSeqList(v.kids) \o buildType(v.t).err
    [] v.t.kind = "Map" ->
         FailSeqList([i \in 1..Len(v.kids) |->
                        LET j == MapIter(Len(v.kids) \div 2, seed, (i + 1) \div 2)
                        IN v.kids[2 * j - (i % 2)]])
         \o buildType(v.t).err
    [] v.t.kind = "Struct" ->
         FailSeqList(SelectSeq(v.kids, LAMBDA f : ~isZero(f))) \o buildType(v.t).err
    [] OTHER -> <<v.t>>

\* C9: when the build of any nested value or the description of any type
\* fails, Build returns the first such error and no node.
C9_FailFast ==
  (Done /\ ~Cyclic /\ FailSeq(root) # <<>>) =>
    /\ result.n = <<>>
    /\ result.err = <<Head(FailSeq(root))>>

\* A nested failure after a binding was added to the scope, with a later
\* failure of another type behind it.
C9_Witness ==
  /\ Done
  /\ root.t.kind \notin UnsupportedKinds
  /\ ~Cyclic
  /\ Len(FailSeq(root)) > 1
  /\ FailSeq(root)[1] # FailSeq(root)[2]
  /\ result.err # <<>>
  /\ result.vars # <<>>

\* C10: Build on a cyclic object graph terminates and reports an error.
C10_CyclicRejected ==
  (Done /\ Cyclic) => (result.err # <<>> /\ ~result.fatal)

\* ------------------------------------------------------------------------
\* Evaluating a returned expression (the Go compiler's reading of the
\* rendered text), for the round trip
\* ------------------------------------------------------------------------

IntKinds == {"Int", "Int8", "Int16", "Int32", "Int64", "Uint", "Uint8", "Uint16", "Uint32", "Uint64"}
FloatKinds == {"Float32", "Float64"}
ComplexKinds == {"Complex64", "Complex128"}

\* What does not compile has the type Bad; NoCtx is the absence of a type
\* the context asks for.
TBad == Basic("Bad")
NoCtx == Basic("NoCtx")
BadVal == Num(TBad, 0)

\* The named types declared where the text is compiled.
Decls == {TY, TZ, TX, TN}

IsDigit(c) == Ord(c) >= Ord("0") /\ Ord(c) <= Ord("9")

RECURSIVE AllDigits(_)
AllDigits(s) == IF s = <<>> THEN TRUE ELSE IsDigit(Head(s)) /\ AllDigits(Tail(s))

RECURSIVE ParseNat(_)
ParseNat(s) ==
  IF s = <<>> THEN 0 ELSE 10 * ParseNat(SubSeq(s, 1, Len(s) - 1)) + (Ord(s[Len(s)]) - Ord("0"))

\* A decimal constant with at most one fractional digit, in tenths.
ParseUnsigned(s) ==
  IF s # <<>> /\ AllDigits(s) THEN [ok |-> TRUE, isInt |-> TRUE, v |-> 10 * ParseNat(s)]
  ELSE IF /\ Len(s) >= 3
          /\ s[Len(s) - 1] = "."
          /\ AllDigits(SubSeq(s, 1, Len(s) - 2))
          /\ IsDigit(s[Len(s)])
    THEN [ok |-> TRUE, isInt |-> FALSE,
          v |-> 10 * ParseNat(SubSeq(s, 1, Len(s) - 2)) + ParseNat(<<s[Len(s)]>>)]
  ELSE [ok |-> FALSE, isInt |-> FALSE, v |-> 0]

ParseNumber(s) ==
  IF s # <<>> /\ Head(s) \in {"-", "+"}
  THEN LET u == ParseUnsigned(Tail(s))
       IN [u EXCEPT !.v = IF Head(s) = "-" THEN -u.v ELSE u.v]
  ELSE ParseUnsigned(s)

\* An untyped constant: re and im in tenths.
Const(ok, form, re, im) == [ok |-> ok, form |-> form, re |-> re, im |-> im]

\* "(" real sign imaginary "i" ")".
ParseComplex(s) ==
  LET cut == { k \in 3..Len(s) : s[k] \in {"+", "-"} }
  IN IF Len(s) < 6 \/ s[Len(s)] # ")" \/ s[Len(s) - 1] # "i" \/ cut = {}
     THEN Const(FALSE, "complex", 0, 0)
     ELSE LET k == CHOOSE k \in cut : \A q \in cut : q <= k
              r == ParseNumber(SubSeq(s, 2, k - 1))
              m == ParseNumber(SubSeq(s, k, Len(s) - 2))
          IN Const(r.ok /\ m.ok, "complex", r.v, m.v)

\* strconv.Unquote of the text between the double quotes.
RECURSIVE UnquoteBody(_)
UnquoteBody(s) ==
  IF s = <<>> THEN <<>>
  ELSE IF Head(s) = "\\" /\ Len(s) >= 2
    THEN (CASE s[2] = "n" -> <<"\n">>
            [] s[2] = "t" -> <<"\t">>
            [] s[2] = "r" -> <<"\r">>
            [] OTHER -> <<s[2]>>) \o UnquoteBody(SubSeq(s, 3, Len(s)))
  ELSE <<Head(s)>> \o UnquoteBody(Tail(s))

\* The type a type expression denotes.
RECURSIVE TypeOfExpr(_)
RECURSIVE FieldNames(_)
RECURSIVE FieldTypes(_)
FieldNames(fs) ==
  IF fs = <<>> THEN <<>>
  ELSE [i \in 1..Len(fs[1].kids) |-> fs[1].kids[i].text] \o FieldNames(Tail(fs))
FieldTypes(fs) ==
  IF fs = <<>> THEN <<>>
  ELSE [i \in 1..Len(fs[1].kids) |-> TypeOfExpr(fs[1].typ[1])] \o FieldTypes(Tail(fs))

TypeOfExpr(n) ==
  CASE n.tag = "Ident" ->
         IF \E k \in ScalarKinds : KindName(k) = n.text
         THEN Basic(CHOOSE k \in ScalarKinds : KindName(k) = n.text)
         ELSE IF \E t \in Decls : t.name = n.text
           THEN CHOOSE t \in Decls : t.name = n.text
         ELSE TBad
    [] n.tag = "StarExpr" -> PtrTo(TypeOfExpr(n.kids[1]))
    [] n.tag = "ArrayType" ->
         IF n.kids = <<>> THEN SliceOf(TypeOfExpr(n.typ[1]))
         ELSE ArrayOf(ParseNat(n.kids[1].text), TypeOfExpr(n.typ[1]))
    [] n.tag = "MapType" -> MapOf(TypeOfExpr(n.kids[1]), TypeOfExpr(n.kids[2]))
    [] n.tag = "InterfaceType" -> TIface
    [] n.tag = "StructType" -> StructOf(<<>>, FieldNames(n.kids), FieldTypes(n.kids))
    [] OTHER -> TBad

\* The type of field i of a struct type (TN's second field is *TN).
FieldType(t, i) == IF i <= Len(t.sub) THEN t.sub[i] ELSE PtrTo(t)

\* An evaluated pointer holds its target in kids.
PtrVal(t, target) == Value(PtrTo(t), 0, 0, <<>>, 1, FALSE, <<target>>)

RECURSIVE ZeroOf(_)
ZeroOf(t) ==
  CASE t.kind = "Array" -> Agg(t, [i \in 1..t.len |-> ZeroOf(t.sub[1])])
    [] t.kind = "Struct" -> Agg(t, [i \in 1..Len(t.fields) |-> ZeroOf(FieldType(t, i))])
    [] t.kind \in {"Slice", "Map"} -> NilOf(t)
    [] OTHER -> Value(t, 0, 0, <<>>, 0, FALSE, <<>>)

\* An untyped constant converted to the type the context asks for, or to its
\* default type.
ConstTo(c, ctx) ==
  LET t == IF ctx.kind \in {"NoCtx", "Interface"}
           THEN (CASE c.form = "int" -> TInt
                   [] c.form = "float" -> Basic("Float64")
                   [] OTHER -> Basic("Complex128"))
           ELSE ctx
  IN IF ~c.ok THEN BadVal
     ELSE IF t.kind \in IntKinds
       THEN (IF c.im = 0 /\ c.re % 10 = 0 /\ (c.re >= 0 \/ t.kind \in {"Int", "Int8", "Int16", "Int32", "Int64"})
             THEN Num(t, c.re \div 10) ELSE BadVal)
     ELSE IF t.kind \in FloatKinds THEN (IF c.im = 0 THEN Num(t, c.re) ELSE BadVal)
     ELSE IF t.kind \in ComplexKinds THEN Cplx(t, c.re, c.im)
     ELSE BadVal

\* A literal, read from its text as the scanner reads it; carriage returns
\* inside a raw string literal are discarded.
LitValue(text, ctx) ==
  IF text = <<>> THEN BadVal
  ELSE IF Head(text) \in {"\"", BackTick}
    THEN LET t == IF ctx.kind \in {"NoCtx", "Interface"} THEN TString ELSE ctx
             inner == SubSeq(text, 2, Len(text) - 1)
         IN IF t.kind # "String" \/ Len(text) < 2 \/ text[Len(text)] # Head(text) THEN BadVal
            ELSE IF Head(text) = BackTick
              THEN (IF Contains(inner, BackTick) THEN BadVal ELSE Str(t, Remove(inner, "\r")))
            ELSE Str(t, UnquoteBody(inner))
  ELSE IF Head(text) = "(" THEN ConstTo(ParseComplex(text), ctx)
  ELSE LET p == ParseNumber(text)
       IN ConstTo(Const(p.ok, IF p.isInt THEN "int" ELSE "float", p.v, 0), ctx)

\* A typed value where the context asks for ctx: identical types, or an
\* interface that boxes it.
Conform(v, ctx) ==
  IF v.t.kind = "Bad" \/ ctx.kind = "NoCtx" \/ v.t = ctx THEN v
  ELSE IF ctx.kind = "Interface" /\ v.t.kind # "Interface" THEN Agg(ctx, <<v>>)
  ELSE BadVal

Lookup(env, name) ==
  IF \E i \in 1..Len(env) : env[i].name = name
  THEN env[CHOOSE i \in 1..Len(env) : env[i].name = name].val
  ELSE BadVal

RECURSIVE Eval(_, _, _)
RECURSIVE EvalElems(_, _, _, _)

\* The elements of a composite literal of type t, from element i on, as the
\* kids of the value: in order for a sequence, <<key, value>> pairs for a map.
EvalElems(t, elts, i, env) ==
  IF i > Len(elts) THEN <<>>
  ELSE IF t.kind = "Map"
    THEN (IF elts[i].tag # "KeyValueExpr" THEN <<BadVal>>
          ELSE <<Eval(elts[i].kids[1], t.sub[1], env), Eval(elts[i].kids[2], t.sub[2], env)>>
               \o EvalElems(t, elts, i + 1, env))
  ELSE <<Eval(elts[i], t.sub[1], env)>> \o EvalElems(t, elts, i + 1, env)

\* A struct literal with field: value elements; the other fields are zero.
EvalStruct(t, elts, env) ==
  IF \E i \in 1..Len(elts) :
       \/ elts[i].tag # "KeyValueExpr"
       \/ elts[i].kids[1].tag # "Ident"
       \/ ~\E f \in 1..Len(t.fields) : t.fields[f] = elts[i].kids[1].text
  THEN <<BadVal>>
  ELSE [f \in 1..Len(t.fields) |->
          IF \E i \in 1..Len(elts) : elts[i].kids[1].text = t.fields[f]
          THEN Eval(elts[CHOOSE i \in 1..Len(elts) : elts[i].kids[1].text = t.fields[f]].kids[2],
                    FieldType(t, f), env)
          ELSE ZeroOf(FieldType(t, f))]

AnyBad(vs) == \E i \in 1..Len(vs) : vs[i].t.kind = "Bad"

Eval(n, ctx, env) ==
  CASE n.tag = "BasicLit" -> Conform(LitValue(n.text, ctx), ctx)
    [] n.tag = "Ident" ->
         IF n.text \in {<<"t", "r", "u", "e">>, <<"f", "a", "l", "s", "e">>}
         THEN LET t == IF ctx.kind = "Bool" THEN ctx ELSE Basic("Bool")
              IN Conform(Num(t, IF n.text = <<"t", "r", "u", "e">> THEN 1 ELSE 0), ctx)
         ELSE IF n.text = <<"n", "i", "l">>
           THEN (CASE ctx.kind = "Ptr" -> Value(ctx, 0, 0, <<>>, 0, FALSE, <<>>)
                   [] ctx.kind \in {"Slice", "Map", "Func", "Chan"} -> NilOf(ctx)
                   [] ctx.kind = "Interface" -> Agg(ctx, <<>>)
                   [] OTHER -> BadVal)
         ELSE Conform(Lookup(env, n.text), ctx)
    [] n.tag = "ParenExpr" -> Eval(n.kids[1], ctx, env)
    [] n.tag = "CallExpr" ->
         IF n.typ[1].tag = "ParenExpr" /\ n.typ[1].kids[1].tag = "FuncLit"
         THEN \* the call of a function literal: bind the parameters, return
              LET ft == n.typ[1].kids[1].typ[1]
                  ps == ft.kids
                  bound == [i \in 1..Len(ps) |->
                              [name |-> ps[i].kids[1].text,
                               val |-> IF i <= Len(n.kids)
                                       THEN Eval(n.kids[i], TypeOfExpr(ps[i].typ[1]), env)
                                       ELSE BadVal]]
              IN IF Len(ps) # Len(n.kids) \/ \E i \in 1..Len(bound) : bound[i].val.t.kind = "Bad"
                 THEN BadVal
                 ELSE Conform(Eval(n.typ[1].kids[1].kids[1].kids[1], TypeOfExpr(ft.typ[1]), bound), ctx)
         ELSE \* a conversion T(x)
              LET t == TypeOfExpr(n.typ[1])
              IN IF Len(n.kids) # 1 \/ t.kind = "Bad" THEN BadVal
                 ELSE IF t.kind = "Interface"
                   THEN LET a == Eval(n.kids[1], t, env)
                        IN Conform(a, ctx)
                 ELSE IF t.kind \in ScalarKinds
                   THEN LET a == Eval(n.kids[1], t, env) IN Conform(a, ctx)
                 ELSE BadVal
    [] n.tag = "CompositeLit" ->
         LET t == TypeOfExpr(n.typ[1])
         IN IF t.kind \in {"Slice", "Map"} \/ (t.kind = "Array" /\ Len(n.kids) = t.len)
            THEN LET ks == EvalElems(t, n.kids, 1, env)
                 IN IF AnyBad(ks) THEN BadVal ELSE Conform(Agg(t, ks), ctx)
            ELSE IF t.kind = "Struct"
              THEN LET ks == EvalStruct(t, n.kids, env)
                   IN IF AnyBad(ks) THEN BadVal ELSE Conform(Agg(t, ks), ctx)
            ELSE BadVal
    [] n.tag = "UnaryExpr" ->
         \* & applies to a composite literal or to a variable
         IF n.kids[1].tag = "CompositeLit"
            \/ (n.kids[1].tag = "Ident" /\ \E i \in 1..Len(env) : env[i].name = n.kids[1].text)
         THEN LET x == Eval(n.kids[1], NoCtx, env)
              IN IF x.t.kind = "Bad" THEN BadVal ELSE Conform(PtrVal(x.t, x), ctx)
         ELSE BadVal
    [] OTHER -> BadVal

\* The input with every pointer replaced by its target (acyclic inputs).
RECURSIVE Unfold(_)
Unfold(v) ==
  IF v.t.kind = "Ptr"
  THEN (IF v.addr = 0 THEN v ELSE PtrVal(v.t.sub[1], Unfold(heap[v.addr])))
  ELSE [v EXCEPT !.kids = [i \in 1..Len(v.kids) |-> Unfold(v.kids[i])]]

\* Structural equality: same types, same nil-ness, same contents; the
\* entries of a map in any order.
RECURSIVE StructEq(_, _)
StructEq(a, b) ==
  /\ a.t = b.t
  /\ a.num = b.num /\ a.im = b.im /\ a.str = b.str /\ a.addr = b.addr /\ a.isNil = b.isNil
  /\ Len(a.kids) = Len(b.kids)
  /\ IF a.t.kind = "Map"
     THEN \A i \in 1..(Len(a.kids) \div 2) : \E j \in 1..(Len(b.kids) \div 2) :
            StructEq(a.kids[2 * i - 1], b.kids[2 * j - 1]) /\ StructEq(a.kids[2 * i], b.kids[2 * j])
     ELSE \A i \in 1..Len(a.kids) : StructEq(a.kids[i], b.kids[i])

\* reflect.ValueOf(x) of the x the expression is assigned to.
Evaluated(n) ==
  LET x == Eval(n, TIface, <<>>)
  IN IF x.t.kind = "Interface" THEN (IF x.kids = <<>> THEN Invalid ELSE x.kids[1]) ELSE x

\* C1: for every input of the supported categories Build succeeds and the
\* expression it returns evaluates to a value structurally equal to the input.
C1_RoundTrip ==
  (Done /\ ~Cyclic /\ FailSeq(root) = <<>>) =>
    /\ Returned
    /\ StructEq(Evaluated(result.n[1]), Unfold(root))

\* ------------------------------------------------------------------------
\* Claims on records
\* ------------------------------------------------------------------------

\* The record the call is about: the root, or what a root pointer refers to.
RootIsRecord ==
  \/ root.t.kind = "Struct"
  \/ root.t.kind = "Ptr" /\ root.addr # 0 /\ heap[root.addr].t.kind = "Struct"
Record == IF root.t.kind = "Struct" THEN root ELSE heap[root.addr]
\* The literal built for it.
RecordLit ==
  LET b == Body(result.n[1]) IN IF root.t.kind = "Struct" THEN b ELSE b.kids[1]

\* Is there an element keyed by the name of field i?
HasField(lit, i) ==
  \E e \in Range(lit.kids) : e.tag = "KeyValueExpr" /\ e.kids[1] = Ident(Record.t.fields[i])

\* C11: a record whose every field is the zero value of its type renders as
\* a composite literal without elements, and a field has an element in the
\* literal exactly when its value is not the zero value of its type.
C11_ZeroFieldElision ==
  (Returned /\ RootIsRecord) =>
    /\ RecordLit.tag = "CompositeLit"
    /\ \A i \in 1..Len(Record.kids) : HasField(RecordLit, i) <=> ~isZero(Record.kids[i])
    /\ allZero(Record.kids, 1) => RecordLit.kids = <<>>

\* A record with fields, all of them zero, rendered without elements.
C11_WitnessAllZero ==
  /\ Returned /\ RootIsRecord
  /\ Len(Record.kids) >= 2 /\ allZero(Record.kids, 1) /\ RecordLit.kids = <<>>

\* A record with a zero field left out next to a non-zero field kept.
C11_Witness ==
  /\ Returned /\ RootIsRecord
  /\ \E i, j \in 1..Len(Record.kids) :
       /\ isZero(Record.kids[i]) /\ ~HasField(RecordLit, i)
       /\ ~isZero(Record.kids[j]) /\ HasField(RecordLit, j)

\* The fields of the record that are not zero, in declaration order.
RECURSIVE NonZeroFrom(_, _)
NonZeroFrom(kids, i) ==
  IF i > Len(kids) THEN <<>>
  ELSE (IF isZero(kids[i]) THEN <<>> ELSE <<i>>) \o NonZeroFrom(kids, i + 1)

\* The field names a struct type expression declares, in order.
RECURSIVE DeclaredNames(_)
DeclaredNames(fs) ==
  IF fs = <<>> THEN <<>>
  ELSE [i \in 1..Len(Head(fs).kids) |-> Head(fs).kids[i].text] \o DeclaredNames(Tail(fs))

\* C12: the elements of a record literal are the non-zero fields in
\* declaration order, each once, as key-value pairs keyed by the field name
\* whose value is the expression built for the field; the literal's type is
\* the declared name of a named record type, the inline struct type otherwise.
C12_RecordShape ==
  (Returned /\ RootIsRecord) =>
    LET nz == NonZeroFrom(Record.kids, 1)
        lit == RecordLit
    IN /\ lit.tag = "CompositeLit"
       /\ Len(lit.kids) = Len(nz)
       /\ \A j \in 1..Len(nz) :
            /\ lit.kids[j].tag = "KeyValueExpr"
            /\ lit.kids[j].kids[1] = Ident(Record.t.fields[nz[j]])
            /\ lit.kids[j].kids[2] = buildInner(Record.kids[nz[j]], result.vars, seed, 1).n[1]
       /\ IF Record.t.name # <<>> THEN lit.typ[1] = Ident(Record.t.name)
          ELSE /\ lit.typ[1].tag = "StructType"
               /\ DeclaredNames(lit.typ[1].kids) = Record.t.fields
               /\ lit.typ[1] = buildType(Record.t).t[1]

\* A named record with two elements in declaration order.
C12_Witness ==
  /\ Returned /\ RootIsRecord /\ Record.t.name # <<>>
  /\ Len(RecordLit.kids) = 2 /\ RecordLit.typ[1].tag = "Ident"

\* An anonymous record with a field left out before a field kept.
C12_WitnessAnonymous ==
  /\ Returned /\ RootIsRecord /\ Record.t.name = <<>>
  /\ RecordLit.typ[1].tag = "StructType"
  /\ Len(RecordLit.kids) >= 2 /\ Len(RecordLit.kids) < Len(Record.kids)
  /\ isZero(Record.kids[1])

\* ------------------------------------------------------------------------
\* Claims on scalars
\* ------------------------------------------------------------------------

NumericKinds ==
  SignedKinds \cup UnsignedKinds \cup {"Float32", "Float64", "Complex64", "Complex128"}

\* The literal of a number: the token kind and the decimal text of its value.
NumberLit(v) ==
  IF v.t.kind \in SignedKinds \cup UnsignedKinds THEN BasicLit("INT", IntText(v.num))
  ELSE IF v.t.kind \in {"Float32", "Float64"} THEN BasicLit("FLOAT", FloatText(v.num))
  ELSE BasicLit("FLOAT", ComplexText(v.num, v.im))

\* C13: a number of kind int or float64 renders as the bare literal of its
\* value; a number of any other numeric kind renders as a call whose callee
\* is the identifier of the kind and whose only argument is that literal.
C13_NumericWidth ==
  (Returned /\ root.t.kind \in NumericKinds) =>
    LET n == result.n[1]
    IN IF root.t.kind \in {"Int", "Float64"} THEN n = NumberLit(root)
       ELSE /\ n.tag = "CallExpr"
            /\ n.typ = <<Ident(KindName(root.t.kind))>>
            /\ n.kids = <<NumberLit(root)>>

\* A negative number of a sized kind rendered as a conversion of a literal.
C13_Witness ==
  /\ Returned /\ root.t.kind \in NumericKinds \ {"Int", "Float64"}
  /\ root.num < 0
  /\ result.n[1].tag = "CallExpr" /\ result.n[1].kids[1].tag = "BasicLit"

\* C14: every floating-point literal of a returned tree carries a fractional
\* marker, so a float whose value is integral never renders as digits only.
C14_IntegralFloatMarker ==
  Returned =>
    \A n \in Subnodes(result.n[1]) :
      (n.tag = "BasicLit" /\ n.kind = "FLOAT" /\ Head(n.text) # "(") => Contains(n.text, ".")

\* The characters strconv.Quote writes with a backslash.
EscapeRequiring == {"\"", "\\", "\n", "\t", "\r"}

IsRaw(n) == n.tag = "BasicLit" /\ n.kind = "STRING" /\ Head(n.text) = BackTick
IsQuoted(n) == n.tag = "BasicLit" /\ n.kind = "STRING" /\ Head(n.text) = "\""

\* C15: a text with a double quote and no other character that needs an
\* escape renders in the raw form; a text with a newline, or any other
\* character that needs an escape once the quotes are removed, renders
\* double-quoted; a text without a double quote renders double-quoted.
C15_RawFormSelection ==
  (Returned /\ root.t.kind = "String") =>
    LET s == root.str
        n == result.n[1]
    IN /\ (Contains(s, "\"") /\ Range(s) \cap EscapeRequiring = {"\""}) => IsRaw(n)
       /\ (Range(s) \cap (EscapeRequiring \ {"\""}) # {}) => IsQuoted(n)
       /\ ~Contains(s, "\"") => IsQuoted(n)

\* C15, amended: the raw form needs, besides the double quote and the absence
\* of other escaped characters, that the text holds no back-tick; a text
\* with a back-tick renders double-quoted like the other two cases.
C15_RawFormSelectionNoBackTick ==
  (Returned /\ root.t.kind = "String") =>
    LET s == root.str
        n == result.n[1]
    IN /\ (/\ Contains(s, "\"")
           /\ Range(s) \cap EscapeRequiring = {"\""}
           /\ ~Contains(s, BackTick)) => IsRaw(n)
       /\ (Range(s) \cap (EscapeRequiring \ {"\""}) # {}) => IsQuoted(n)
       /\ Contains(s, BackTick) => IsQuoted(n)
       /\ ~Contains(s, "\"") => IsQuoted(n)

\* A text with a double quote and a back-tick, rendered double-quoted.
C15_Witness ==
  /\ Returned /\ root.t.kind = "String"
  /\ Contains(root.str, "\"") /\ Contains(root.str, BackTick)
  /\ Range(root.str) \cap EscapeRequiring = {"\""}
  /\ IsQuoted(result.n[1])

\* C16: the string literal of a text, read back as Go reads it, is the text,
\* whichever form was chosen; a text with a back-tick or a carriage return
\* is never rendered in the raw form.
C16_QuotingKeepsValue ==
  (Returned /\ root.t.kind = "String") =>
    /\ LitValue(result.n[1].text, root.t) = root
    /\ (Contains(root.str, BackTick) \/ Contains(root.str, "\r")) => ~IsRaw(result.n[1])

\* A text with a double quote and a carriage return, read back unchanged.
C16_Witness ==
  /\ Returned /\ root.t.kind = "String"
  /\ Contains(root.str, "\"") /\ Contains(root.str, "\r")
  /\ IsQuoted(result.n[1])
  /\ LitValue(result.n[1].text, root.t) = root

\* ------------------------------------------------------------------------
\* Claims on sequences and interfaces
\* ------------------------------------------------------------------------

\* C17: an array or slice of n elements renders as a composite literal of
\* the array or slice type with n elements, the i-th being the expression
\* built for the i-th element of the input; zero elements are kept.
C17_SequenceShape ==
  (Returned /\ root.t.kind \in {"Array", "Slice"}) =>
    LET lit == Body(result.n[1])
    IN /\ lit.tag = "CompositeLit"
       /\ lit.typ = buildType(root.t).t
       /\ lit.typ[1].tag = "ArrayType"
       /\ lit.typ[1].kids = IF root.t.kind = "Array"
                            THEN <<BasicLit("INT", NatText(root.t.len))>> ELSE <<>>
       /\ Len(lit.kids) = Len(root.kids)
       /\ \A i \in 1..Len(root.kids) :
            lit.kids[i] = buildInner(root.kids[i], result.vars, seed, 1).n[1]

\* A sequence with a zero element before a non-zero one, both rendered.
C17_Witness ==
  /\ Returned /\ root.t.kind \in {"Array", "Slice"}
  /\ \E i, j \in 1..Len(root.kids) : i < j /\ isZero(root.kids[i]) /\ ~isZero(root.kids[j])
  /\ Len(Body(result.n[1]).kids) = Len(root.kids)

\* The interface types a slot of the inputs is declared with.
DynamicTypes == {TIface, TError}

\* C18: a value in a slot of an interface type renders as a call whose only
\* argument is the expression built for the concrete value and whose callee
\* is the type expression of the slot's declared type, which no other
\* interface type of the inputs is described by; the same holds for the
\* element type of the enclosing literal.
C18_DynamicShape ==
  (Returned /\ root.t.kind \in {"Array", "Slice"} /\ root.t.sub[1].kind = "Interface") =>
    LET lit == Body(result.n[1])
        slot == root.t.sub[1]
    IN /\ \A i \in 1..Len(root.kids) :
            /\ lit.kids[i].tag = "CallExpr"
            /\ lit.kids[i].kids = buildInner(Elem(root.kids[i]), result.vars, seed, 1).n
            /\ lit.kids[i].typ = buildType(slot).t
            /\ \A t \in DynamicTypes \ {slot} : lit.kids[i].typ # buildType(t).t
       /\ \A t \in DynamicTypes \ {slot} : lit.typ[1].typ # buildType(t).t

\* ------------------------------------------------------------------------
\* Claims on the types of bindings
\* ------------------------------------------------------------------------

\* C20: a reference to a scalar of a named type reads a binding whose type is
\* the declared name of that type, and no reference to a scalar of another
\* type reads the same binding.
C20_NamedScalarBinding ==
  (Returned /\ Aligned) =>
    \A i \in RefIdx :
      Target(i).t.name # <<>> =>
        /\ \E k \in 1..Len(result.vars) : Reads(i, k)
        /\ \A k \in 1..Len(result.vars) :
             Reads(i, k) =>
               /\ result.vars[k].typ = Ident(Target(i).t.name)
               /\ \A j \in RefIdx : Reads(j, k) => Target(j).t = Target(i).t

\* ------------------------------------------------------------------------
\* Claims on calls in progress at the same time
\* ------------------------------------------------------------------------

Started(c) == calls[c].pc # "idle"

\* C19: every call starts with an empty scope that no other call uses, and
\* however the steps of the calls interleave, what a call returns is what it
\* returns when it runs alone.
C19_ScopeIsolation ==
  \A c \in DOMAIN calls :
    /\ calls[c].pc = "new" => builders[calls[c].b] = <<>>
    /\ Started(c) => \A o \in DOMAIN calls \ {c} : Started(o) => calls[o].b # calls[c].b
    /\ calls[c].pc = "done" => calls[c].out = Build(calls[c].root, calls[c].sd)

\* Call 2 started after call 1 and returned while call 1 was between its
\* walk and its return; both created a first binding, of different values.
C19_Witness ==
  /\ calls # <<>>
  /\ calls[1].b = 1 /\ calls[1].pc = "walked"
  /\ calls[2].b = 2 /\ calls[2].pc = "done"
  /\ Len(builders[1]) > 0 /\ Len(builders[2]) > 0
  /\ builders[1][1].name = builders[2][1].name
  /\ builders[1][1].expr # builders[2][1].expr
  /\ calls[2].out.n # <<>>

\* ------------------------------------------------------------------------
\* Claims on references
\* ------------------------------------------------------------------------

\* C21: no address-of node of a returned tree has an address-of node as its
\* operand: every level of a pointer to a pointer is the address of a name
\* or of a composite literal.
C21_NoNestedAddressOf ==
  Returned =>
    \A n \in Subnodes(result.n[1]) :
      n.tag = "UnaryExpr" => n.kids[1].tag # "UnaryExpr"

\* ------------------------------------------------------------------------
\* Claims on the description of types
\* ------------------------------------------------------------------------

\* The tag of field p of a struct type.
TagOf(t, p) == IF t.tags = <<>> THEN <<>> ELSE t.tags[p]

\* The declaration (Field node) of a struct type expression that declares
\* the p-th name.
RECURSIVE OwnerIdx(_, _)
OwnerIdx(fs, p) ==
  IF p <= Len(Head(fs).kids) THEN 1 ELSE 1 + OwnerIdx(Tail(fs), p - Len(Head(fs).kids))

\* C22: the type expression of an anonymous record lists every field in
\* declaration order with its name, its type and its tag, and a declaration
\* groups fields only of the same type and the same tag.
C22_AnonymousRecordType ==
  (Returned /\ RootIsRecord /\ Record.t.name = <<>>) =>
    LET t == Record.t
        st == RecordLit.typ[1]
        own(p) == OwnerIdx(st.kids, p)
    IN /\ st.tag = "StructType"
       /\ DeclaredNames(st.kids) = t.fields
       /\ \A p \in 1..Len(t.fields) :
            /\ st.kids[own(p)].typ = buildType(t.sub[p]).t
            /\ st.kids[own(p)].text = TagOf(t, p)
       /\ \A p \in 1..Len(t.fields) : \A q \in 1..Len(t.fields) :
            own(p) = own(q) => (t.sub[p] = t.sub[q] /\ TagOf(t, p) = TagOf(t, q))

\* ------------------------------------------------------------------------
\* Claims on the entries of a map literal
\* ------------------------------------------------------------------------

\* C23: no two entries of a map literal have the same key text, and of any
\* two entries the comparator of the sort puts one before the other.
C23_NoKeyTies ==
  (Returned /\ root.t.kind = "Map") =>
    LET es == Body(result.n[1]).kids
    IN \A i \in 1..Len(es) : \A j \in 1..Len(es) :
         i # j =>
           /\ Fprint(es[i].kids[1]) # Fprint(es[j].kids[1])
           /\ EntryLess(es[i], es[j]) \/ EntryLess(es[j], es[i])

\* ------------------------------------------------------------------------
\* Claims on the closure
\* ------------------------------------------------------------------------

\* The identifiers of the language that are not names of bindings.
Predeclared == { <<"t", "r", "u", "e">>, <<"f", "a", "l", "s", "e">>, <<"n", "i", "l">> }

\* The names the body reads under an address-of node.
NamesRead(body) ==
  { m.kids[1].text : m \in { k \in Subnodes(body) : k.tag = "UnaryExpr" /\ k.kids[1].tag = "Ident" } }
  \ Predeclared

\* The names the closure declares as parameters (none without a closure).
NamesDeclared(n) ==
  IF Wrapped(n) THEN UNION { { i.text : i \in Range(f.kids) } : f \in Range(Params(n)) } ELSE {}

\* C24: the binding names a returned tree reads under an address-of node are
\* exactly the parameters of its closure, and the closure is called with as
\* many arguments as it has parameters.
C24_ClosedBindings ==
  Returned =>
    LET n == result.n[1]
    IN /\ NamesRead(Body(n)) = NamesDeclared(n)
       /\ Wrapped(n) =>
            /\ \A f \in Range(Params(n)) : Len(f.kids) = 1
            /\ Cardinality(NamesDeclared(n)) = Len(Params(n))
            /\ Len(Params(n)) = Len(n.kids)

\* A closure with two parameters, both read in the body, and two arguments.
C24_Witness ==
  /\ Returned /\ Wrapped(result.n[1])
  /\ Len(Params(result.n[1])) = 2 /\ Len(result.n[1].kids) = 2
  /\ Cardinality(NamesRead(Body(result.n[1]))) = 2

\* C25: a nil reference that is built renders as the identifier nil, bare
\* or converted to its type; no address-of node of a returned tree has the
\* identifier nil as its operand.
C25_NilReference ==
  Returned =>
    /\ \A n \in Subnodes(result.n[1]) :
         n.tag = "UnaryExpr" => n.kids[1] # Ident(<<"n", "i", "l">>)
    /\ (root.t.kind = "Ptr" /\ root.addr = 0) =>
         Ident(<<"n", "i", "l">>) \in {result.n[1]} \cup Range(result.n[1].kids)

\* ------------------------------------------------------------------------
\* Claims on unsupported types inside a value
\* ------------------------------------------------------------------------

\* Does a type of an unsupported kind occur in the type t?
RECURSIVE TypeHasUnsupported(_)
TypeHasUnsupported(t) ==
  t.kind \in UnsupportedKinds \/ \E u \in Range(t.sub) : TypeHasUnsupported(u)

\* Does one occur in the type of v or of anything v holds or points to?
RECURSIVE Occurs(_)
Occurs(v) ==
  \/ TypeHasUnsupported(v.t)
  \/ \E k \in Range(v.kids) : Occurs(k)
  \/ v.t.kind = "Ptr" /\ v.addr # 0 /\ Occurs(heap[v.addr])

UnsupportedError ==
  result.n = <<>> /\ result.err # <<>> /\ result.err[1].kind \in UnsupportedKinds

\* The root is a sequence or map without elements, of an unsupported
\* element type.
EmptyOfUnsupported ==
  /\ root.t.kind \in {"Array", "Slice", "Map"}
  /\ root.kids = <<>>
  /\ TypeHasUnsupported(root.t.sub[Len(root.t.sub)])

\* The root is a record with a zero field of an unsupported type and no
\* other field that is built and unsupported.
ZeroUnsupportedField ==
  /\ root.t.kind = "Struct"
  /\ \E i \in 1..Len(root.kids) : TypeHasUnsupported(root.kids[i].t) /\ isZero(root.kids[i])
  /\ \A i \in 1..Len(root.kids) : ~isZero(root.kids[i]) => ~Occurs(root.kids[i])

====
